---- MODULE Spec2Model ----
(***************************************************************************)
(* Query resolution pipeline of chatbot2.py: process_query and the answer  *)
(* sources it calls (search_commodity_prices, web_search,                  *)
(* get_llama_response, translate_response).                                *)
(*                                                                         *)
(* Text is modelled as a sequence of characters; Chars turns a literal     *)
(* into that sequence.  A Devanagari character is written as the name of   *)
(* its code point ("U0915"), one sequence element per code point, as in a  *)
(* Python str.                                                             *)
(***************************************************************************)
EXTENDS Integers, Sequences, FiniteSets, TLC

\* TLC keeps [i \in 1..n |-> e] unevaluated; SubSeq of it is the same sequence,
\* held as a tuple
Tuple(f, n) == SubSeq(f, 1, n)

Chars(s) == Tuple([i \in 1..Len(s) |-> SubSeq(s, i, i)], Len(s))

UpperChars == Chars("ABCDEFGHIJKLMNOPQRSTUVWXYZ")
LowerChars == Chars("abcdefghijklmnopqrstuvwxyz")

\* str.lower() on one character
LowerChar(c) ==
    IF \E k \in 1..26 : UpperChars[k] = c
    THEN LowerChars[CHOOSE k \in 1..26 : UpperChars[k] = c]
    ELSE c

\* str.lower()
Lower(s) == Tuple([i \in 1..Len(s) |-> LowerChar(s[i])], Len(s))

IsSpace(c) == c = " "

\* Python's  sub in s  on strings
Contains(sub, s) ==
    \E i \in 0..(Len(s) - Len(sub)) : SubSeq(s, i + 1, i + Len(sub)) = sub

\* the positions of s that hold a character other than a space
Inked(s) == {i \in 1..Len(s) : ~IsSpace(s[i])}

SetMin(S) == CHOOSE m \in S : \A n \in S : m <= n
SetMax(S) == CHOOSE m \in S : \A n \in S : n <= m

\* str.strip()
Strip(s) == IF Inked(s) = {} THEN <<>> ELSE SubSeq(s, SetMin(Inked(s)), SetMax(Inked(s)))

\* the positions where a word of s starts
WordStarts(s) == {i \in Inked(s) : i = 1 \/ IsSpace(s[i - 1])}

\* the position where the word that starts at i ends
WordEnd(s, i) == SetMin({j \in i..Len(s) : j = Len(s) \/ IsSpace(s[j + 1])})

\* the n-th smallest element of a set of numbers
Nth(S, n) == CHOOSE i \in S : Cardinality({k \in S : k < i}) = n - 1

SplitAt(s, starts) ==
    Tuple([n \in 1..Cardinality(starts) |->
              SubSeq(s, Nth(starts, n), WordEnd(s, Nth(starts, n)))],
          Cardinality(starts))

\* str.split(): the maximal runs of non-space characters, in order
Split(s) == SplitAt(s, WordStarts(s))

(***************************************************************************)
(* fuzz.ratio.  fuzzywuzzy scores with python-Levenshtein when it is       *)
(* installed and with difflib otherwise; the two give 2*M/T for different  *)
(* M, so the scorer in use (fuzzImpl) is a property of the deployment.     *)
(***************************************************************************)

\* One row of the longest-common-subsequence table from the row before it:
\* entry j + 1 is the length for the prefix of b of length j.
LcsRow(prev, ai, b) ==
    Tuple([j \in 1..(Len(b) + 1) |->
              SetMax({prev[j]} \cup {prev[j2] + 1 : j2 \in {x \in 1..(j - 1) : b[x] = ai}})],
          Len(b) + 1)

\* the rows from row i on, each computed in full before the next is started
RECURSIVE LcsRows(_, _, _, _)
LcsRows(a, b, i, prev) ==
    IF i > Len(a) THEN prev[Len(b) + 1]
    ELSE LET row == LcsRow(prev, a[i], b)
         IN  IF Len(row) = Len(b) + 1 THEN LcsRows(a, b, i + 1, row) ELSE 0

\* length of the longest common subsequence of a and b, a the shorter one
LcsShort(a, b) == LcsRows(a, b, 1, Tuple([j \in 1..(Len(b) + 1) |-> 0], Len(b) + 1))

\* length of the longest common subsequence of a and b
LcsLen(a, b) == IF Len(a) <= Len(b) THEN LcsShort(a, b) ELSE LcsShort(b, a)

\* length of the common run of a from i and b from j
CommonRun(a, b, i, j) ==
    SetMax({n \in 0..(Len(a) - i + 1) :
               n <= Len(b) - j + 1 /\ SubSeq(a, i, i + n - 1) = SubSeq(b, j, j + n - 1)})

\* difflib.SequenceMatcher.find_longest_match: the longest block, of those
\* the one starting earliest in a, of those the one starting earliest in b
LongestMatch(a, b) ==
    LET runs == [p \in (1..Len(a)) \X (1..Len(b)) |-> CommonRun(a, b, p[1], p[2])]
        k    == CHOOSE n \in 0..Len(a) :
                    /\ n = 0 \/ \E p \in DOMAIN runs : runs[p] = n
                    /\ \A p \in DOMAIN runs : runs[p] <= n
        i    == CHOOSE x \in 1..Len(a) :
                    /\ \E y \in 1..Len(b) : runs[<<x, y>>] = k
                    /\ \A x2 \in 1..(x - 1) : \A y \in 1..Len(b) : runs[<<x2, y>>] # k
        j    == CHOOSE y \in 1..Len(b) :
                    /\ runs[<<i, y>>] = k
                    /\ \A y2 \in 1..(y - 1) : runs[<<i, y2>>] # k
    IN  IF a = <<>> \/ b = <<>> \/ k = 0 THEN <<0, 0, 0>> ELSE <<i, j, k>>

\* difflib.SequenceMatcher.get_matching_blocks: total size of the blocks, the
\* longest block m first, then the blocks to its left and to its right
RECURSIVE MatchingAround(_, _, _)
MatchingAround(a, b, m) ==
    IF m[3] = 0 THEN 0
    ELSE m[3]
         + MatchingAround(SubSeq(a, 1, m[1] - 1), SubSeq(b, 1, m[2] - 1),
                          LongestMatch(SubSeq(a, 1, m[1] - 1), SubSeq(b, 1, m[2] - 1)))
         + MatchingAround(SubSeq(a, m[1] + m[3], Len(a)), SubSeq(b, m[2] + m[3], Len(b)),
                          LongestMatch(SubSeq(a, m[1] + m[3], Len(a)),
                                       SubSeq(b, m[2] + m[3], Len(b))))

MatchingSize(a, b) == MatchingAround(a, b, LongestMatch(a, b))

\* int(round(num / den)) with Python's round-half-to-even
RoundDiv(num, den) ==
    LET q == num \div den
        r == num % den
    IN  IF 2 * r > den THEN q + 1
        ELSE IF 2 * r < den THEN q
        ELSE IF q % 2 = 0 THEN q ELSE q + 1

FuzzImpls == {"difflib", "levenshtein"}

\* fuzz.ratio(s1, s2) under scorer impl
Ratio(impl, s1, s2) ==
    IF s1 = s2 THEN 100
    ELSE IF s1 = <<>> \/ s2 = <<>> THEN 0
    ELSE LET m == IF impl = "difflib" THEN MatchingSize(s1, s2) ELSE LcsLen(s1, s2)
         IN  RoundDiv(200 * m, Len(s1) + Len(s2))

(***************************************************************************)
(* Values that may be absent: None is the empty sequence, Some(v) holds v. *)
(***************************************************************************)
None == <<>>
Some(v) == <<v>>
IsSome(o) == o # <<>>
Get(o) == o[1]

\* a  try  body: either it returned val or it raised
Returned(v) == [exc |-> FALSE, val |-> v]
Raised == [exc |-> TRUE, val |-> None]

(***************************************************************************)
(* The commodity catalog and the synonym map                               *)
(***************************************************************************)

\* the list load_commodities returns when commodity_list.txt cannot be read
DefaultCommodities ==
    << Chars("banana - green"), Chars("beans"), Chars("beetroot"),
       Chars("betal leaves"), Chars("bhindi"), Chars("ladies finger"),
       Chars("bitter gourd"), Chars("bottle gourd"), Chars("brinjal"),
       Chars("cabbage"), Chars("capsicum"), Chars("carrot"), Chars("cauliflower"),
       Chars("cucumber"), Chars("kheera"), Chars("fish"), Chars("garlic"),
       Chars("ginger(dry)"), Chars("ginger(green)"), Chars("green chilli"),
       Chars("guar"), Chars("little gourd"), Chars("kundru"), Chars("maize"),
       Chars("onion"), Chars("paddy"), Chars("dhan"), Chars("papaya (raw)"),
       Chars("pointed gourd"), Chars("parval"), Chars("potato"), Chars("aloo"),
       Chars("pumpkin"), Chars("rice"), Chars("chawla"), Chars("ridgeguard"),
       Chars("tori"), Chars("tomato"), Chars("water melon"), Chars("yam"),
       Chars("ratalu"), Chars("jack fruit"), Chars("lemon"), Chars("nimbu"),
       Chars("corn"), Chars("broccoli"), Chars("colacasia"), Chars("cluster beans"),
       Chars("raddish"), Chars("green peas"), Chars("drumstick"), Chars("wheat") >>

\* list(dict.fromkeys(names)): the first occurrence of each name, in order
RECURSIVE Dedup(_, _)
Dedup(names, seen) ==
    IF names = <<>> THEN <<>>
    ELSE IF Head(names) \in seen THEN Dedup(Tail(names), seen)
    ELSE <<Head(names)>> \o Dedup(Tail(names), seen \cup {Head(names)})

KeepLine(line) == Strip(line) # <<>> /\ ~Contains(Chars("ox"), Lower(line))

\* load_commodities on a readable commodity_list.txt: the stripped, lowercased
\* non-blank lines without "ox", first occurrence of each kept
LoadLines(lines) ==
    LET kept == SelectSeq(lines, KeepLine)
    IN  Dedup(Tuple([i \in 1..Len(kept) |-> Lower(Strip(kept[i]))], Len(kept)), {})

\* contents of commodity_list.txt in the deployments considered
CommodityFiles ==
    { << Chars("# vegetables"), Chars("Tomato"), Chars("onion"), Chars(""),
         Chars("Bhindi "), Chars("Oxtail"), Chars("tomato"), Chars("wheat") >> }

\* load_commodities: the file's list, or the default list when open() fails
Catalogs == {DefaultCommodities} \cup {LoadLines(f) : f \in CommodityFiles}

MappingKeys ==
    << Chars("okra"), Chars("ladies finger"), Chars("lemon"), Chars("cucumber"),
       Chars("paddy"), Chars("rice"), Chars("pointed gourd"), Chars("potato"),
       Chars("ridgeguard"), Chars("yam"), Chars("brocoli"), Chars("ginger"),
       Chars("dry ginger"), Chars("chilli"), Chars("papaya"), Chars("sugar beet"),
       Chars("chukandar") >>

MappingValues ==
    << Chars("bhindi"), Chars("bhindi"), Chars("nimbu"), Chars("kheera"),
       Chars("dhan"), Chars("chawla"), Chars("parval"), Chars("aloo"), Chars("tori"),
       Chars("ratalu"), Chars("broccoli"), Chars("ginger(green)"),
       Chars("ginger(dry)"), Chars("green chilli"), Chars("papaya (raw)"),
       Chars("beetroot"), Chars("beetroot") >>

\* a synonym map that sends a name to another synonym
MapCommodityChained(name) ==
    IF name = Chars("rice") THEN Chars("paddy")
    ELSE IF name = Chars("paddy") THEN Chars("dhan")
    ELSE name

\* COMMODITY_MAPPING.get(name, name)
MapCommodity(name) ==
    IF \E k \in 1..Len(MappingKeys) : MappingKeys[k] = name
    THEN MappingValues[CHOOSE k \in 1..Len(MappingKeys) : MappingKeys[k] = name]
    ELSE name

(***************************************************************************)
(* Keyword lists                                                           *)
(***************************************************************************)
agriculture_keywords ==
    << Chars("agriculture"), Chars("farming"), Chars("crop"), Chars("commodity"),
       Chars("price"), Chars("rate"), Chars("cost"), Chars("equipment"),
       Chars("tractor"), Chars("harvest"), Chars("irrigation"), Chars("lady finger"),
       Chars("bhindi"), Chars("rice"), Chars("wheat"), Chars("potato"), Chars("pests"),
       Chars("insects"), Chars("disease"), Chars("weeds"), Chars("crop protection"),
       Chars("fertilizer"), Chars("soil"), Chars("seeds"), Chars("banana"),
       Chars("beans"), Chars("beetroot"), Chars("cucumber"), Chars("fish"),
       Chars("garlic"), Chars("ginger"), Chars("chilli"), Chars("maize"),
       Chars("onion"), Chars("paddy"), Chars("papaya"), Chars("lemon"), Chars("corn"),
       Chars("broccoli"), Chars("peas"), Chars("bugs"), Chars("vermin"),
       Chars("crop damage") >>

hindi_agriculture_keywords ==
    << <<"U0915", "U0943", "U0937", "U093F">>, <<"U0916", "U0947", "U0924", "U0940">>,
       <<"U092B", "U0938", "U0932">>, <<"U0915", "U0940", "U091F">>,
       <<"U0930", "U094B", "U0917">>,
       <<"U0916", "U0930", "U092A", "U0924", "U0935", "U093E", "U0930">>,
       <<"U0909", "U0930", "U094D", "U0935", "U0930", "U0915">>,
       <<"U092E", "U093F", "U091F", "U094D", "U091F", "U0940">>,
       <<"U092C", "U0940", "U091C">>, <<"U092A", "U094D", "U092F", "U093E", "U091C">>,
       <<"U0906", "U0932", "U0942">>, <<"U091A", "U093E", "U0935", "U0932">>,
       <<"U0917", "U0947", "U0939", "U0942", "U0902">>,
       <<"U0928", "U0940", "U0902", "U092C", "U0942">>,
       <<"U091A", "U0941", "U0915", "U0902", "U0926", "U0930">>,
       <<"U0915", "U0940", "U092E", "U0924">> >>

price_keywords ==
    << Chars("price"), Chars("cost"), Chars("rate"), Chars("value"), Chars("prie"),
       <<"U0915", "U0940", "U092E", "U0924">> >>

PriceThreshold == 80
CommodityThreshold == 85

\* any(keyword in text for keyword in keywords)
AnyKeywordIn(keywords, text) ==
    \E k \in 1..Len(keywords) : Contains(keywords[k], text)

\* price intent also at a score equal to the threshold
IsPriceQueryAtLeast(impl, query) ==
    LET words == Split(Lower(query))
    IN  \E k \in 1..Len(price_keywords) : \E w \in 1..Len(words) :
            Ratio(impl, price_keywords[k], words[w]) >= PriceThreshold

\* any(fuzz.ratio(keyword, word) > 80 for keyword in price_keywords
\*     for word in query.lower().split())
IsPriceQuery(impl, query) ==
    LET words == Split(Lower(query))
    IN  \E k \in 1..Len(price_keywords) : \E w \in 1..Len(words) :
            Ratio(impl, price_keywords[k], words[w]) > PriceThreshold

\* commodity in query_lower or any(fuzz.ratio(commodity, word) > 85 ...)
CommodityMatches(impl, commodity, query_lower) ==
    \/ Contains(commodity, query_lower)
    \/ LET words == Split(query_lower)
       IN  \E w \in 1..Len(words) : Ratio(impl, commodity, words[w]) > CommodityThreshold

\* a loop without the break: the last entry that matches
LastOf(catalog, hits) == IF hits = {} THEN None ELSE Some(catalog[SetMax(hits)])

\* the loop over the catalog: the first entry that matches, before the synonym map
FirstOf(catalog, hits) == IF hits = {} THEN None ELSE Some(catalog[SetMin(hits)])

FirstMatchLower(impl, catalog, query_lower) ==
    FirstOf(catalog,
            {i \in 1..Len(catalog) : CommodityMatches(impl, catalog[i], query_lower)})

FirstMatch(impl, catalog, query) == FirstMatchLower(impl, catalog, Strip(Lower(query)))

(***************************************************************************)
(* The record store (commodity_prices) as find_one sees it                 *)
(***************************************************************************)

\* the part of s before the first occurrence of character c:  s.split(c)[0]
BeforeChar(s, c) ==
    SubSeq(s, 1, SetMin({i \in 1..(Len(s) + 1) : i = Len(s) + 1 \/ s[i] = c}) - 1)

\* the alternatives of a pattern  a|b|c: what lies between two bars next to
\* each other, the ends of the pattern counting as bars
AlternativesAt(p, bars) ==
    {SubSeq(p, x[1] + 1, x[2] - 1) :
        x \in {y \in bars \X bars :
                  y[1] < y[2] /\ \A m \in bars : ~(y[1] < m /\ m < y[2])}}

Alternatives(p) ==
    AlternativesAt(p, {0, Len(p) + 1} \cup {i \in 1..Len(p) : p[i] = "|"})

\* what a pattern made of literals and ( ) groups matches: the literals
NotParen(c) == c \notin {"(", ")"}
Ungroup(p) == SelectSeq(p, NotParen)

\* {"$regex": pattern, "$options": "i"} against a field value
RegexSearchI(pattern, text) ==
    \E alt \in Alternatives(pattern) : Contains(Lower(Ungroup(alt)), Lower(text))

\* characters of arrival_date values in code-point order
DateChars == Chars("-0123456789:T")
CharOrd(c) == CHOOSE k \in 1..Len(DateChars) : DateChars[k] = c

\* a < b on strings
StrLess(a, b) ==
    \E k \in 1..Len(b) :
        /\ k - 1 <= Len(a)
        /\ SubSeq(a, 1, k - 1) = SubSeq(b, 1, k - 1)
        /\ k > Len(a) \/ CharOrd(a[k]) < CharOrd(b[k])

\* sort key of a document under sort=[("arrival_date", -1)]; a missing field
\* sorts as null, below every string
DateBelow(r1, r2) ==
    IF "arrival_date" \notin DOMAIN r2 THEN FALSE
    ELSE IF "arrival_date" \notin DOMAIN r1 THEN TRUE
    ELSE StrLess(r1.arrival_date, r2.arrival_date)

\* a document matches when any one entry of the filter matches
DocMatchesAny(doc, filter) ==
    \E f \in DOMAIN filter : f \in DOMAIN doc /\ RegexSearchI(filter[f], doc[f])

\* a document matches a find_one filter: every entry matches its field
DocMatches(doc, filter) ==
    \A f \in DOMAIN filter : f \in DOMAIN doc /\ RegexSearchI(filter[f], doc[f])

\* commodity_prices.find_one(filter, sort=[("arrival_date", -1)]): the results
\* the store may give (any of the most recent matching documents, or None)
FindOne(collection, filter) ==
    LET hits == {d \in collection : DocMatches(d, filter)}
        top  == {d \in hits : \A e \in hits : ~DateBelow(d, e)}
    IN  IF hits = {} THEN {None} ELSE {Some(d) : d \in top}

\* the outcomes of one find_one call: a result, or a fault of the store
FindOneOutcomes(collection, filter) ==
    {Raised} \cup {Returned(r) : r \in FindOne(collection, filter)}

\* the outcomes of the find_one call with this query, if the query is built
StoreOutcomes(collection, query) ==
    IF IsSome(query) THEN FindOneOutcomes(collection, Get(query)) ELSE {Raised}

(***************************************************************************)
(* search_commodity_prices                                                 *)
(***************************************************************************)

\* every query is filtered by the Balasore district and by the state
LocationFiltersWithState(query_lower) ==
    [f \in {"district_name", "state_name"} |->
        IF f = "district_name" THEN Chars("Balasore|Baleswar|Baleshwar")
        ELSE Chars("Odisha|Orissa")]

\* the location_filters dict
LocationFilters(query_lower) ==
    LET has(w) == Contains(Chars(w), query_lower)
        balasore == has("balasore") \/ has("baleswar") \/ has("baleshwar")
        fields == (IF balasore \/ has("rayagada") THEN {"district_name"} ELSE {})
                  \cup (IF has("odisha") \/ has("orissa") THEN {"state_name"} ELSE {})
                  \cup (IF has("hindol") THEN {"market"} ELSE {})
    IN  [f \in fields |->
            CASE f = "district_name" ->
                     IF has("rayagada") THEN Chars("Rayagada")
                     ELSE Chars("Balasore|Baleswar|Baleshwar")
              [] f = "state_name" -> Chars("Odisha|Orissa")
              [] f = "market" -> Chars("Hindol")]

\* query_dict: the crop pattern and every location filter
QueryDict(commodity, location_filters) ==
    [f \in {"crop"} \cup DOMAIN location_filters |->
        IF f = "crop" THEN commodity ELSE location_filters[f]]

\* the state-level query keeps every location filter
StateQueryKeepsAll(commodity, location_filters) ==
    QueryDict(commodity, location_filters)

\* state_query: the crop pattern and the state filter alone
StateQuery(commodity, location_filters) ==
    [f \in {"crop", "state_name"} |->
        IF f = "crop" THEN commodity ELSE location_filters[f]]

\* the sentence built from the first query's result; a missing field raises KeyError
FormatResult(doc) ==
    IF \E f \in {"crop", "market", "district_name", "state_name", "modal_price",
                 "unit_of_price", "arrival_date"} : f \notin DOMAIN doc
    THEN Raised
    ELSE Returned(Chars("The price of ") \o doc.crop \o Chars(" in ") \o doc.market
                  \o Chars(", ") \o doc.district_name \o Chars(", ") \o doc.state_name
                  \o Chars(" is ") \o doc.modal_price \o Chars(" ") \o doc.unit_of_price
                  \o Chars(" as of ") \o BeforeChar(doc.arrival_date, "T") \o Chars("."))

\* the sentence built from the state-level result
FormatStateResult(doc) ==
    IF \E f \in {"crop", "market", "state_name", "modal_price", "unit_of_price",
                 "arrival_date"} : f \notin DOMAIN doc
    THEN Raised
    ELSE Returned(Chars("The price of ") \o doc.crop \o Chars(" in ") \o doc.market
                  \o Chars(", ") \o doc.state_name
                  \o Chars(" is ") \o doc.modal_price \o Chars(" ") \o doc.unit_of_price
                  \o Chars(" as of ") \o BeforeChar(doc.arrival_date, "T") \o Chars("."))

\* What search_commodity_prices decides before it touches the store: price
\* intent, the catalog entry matched, the commodity after the synonym map, the
\* filters and the two queries (state_query only when a state filter exists).
NoPlan(price) ==
    [is_price_query |-> price, first_match |-> None, matched_commodity |-> None,
     location_filters |-> <<>>, query_dict |-> None, state_query |-> None]

PlanQueries(first, matched, filters) ==
    [is_price_query |-> TRUE, first_match |-> Some(first),
     matched_commodity |-> Some(matched),
     location_filters |-> filters,
     query_dict |-> Some(QueryDict(matched, filters)),
     state_query |-> IF "state_name" \in DOMAIN filters
                     THEN Some(StateQuery(matched, filters)) ELSE None]

PlanMatched(first, query_lower) ==
    IF first = None THEN NoPlan(TRUE)
    ELSE PlanQueries(Get(first), MapCommodity(Get(first)), LocationFilters(query_lower))

PlanLower(impl, catalog, query_lower) ==
    IF ~IsPriceQuery(impl, query_lower) THEN NoPlan(FALSE)
    ELSE PlanMatched(FirstMatchLower(impl, catalog, query_lower), query_lower)

ScpPlan(impl, catalog, query) == PlanLower(impl, catalog, Strip(Lower(query)))

ScpOutcome(exc, val, issued) == [exc |-> exc, val |-> val, issued |-> issued]

\* the return after a find_one gave doc; sentence is the formatted doc or Raised
ScpAnswer(sentence, issued) ==
    IF sentence.exc THEN ScpOutcome(TRUE, None, issued)
    ELSE ScpOutcome(FALSE, Some(sentence.val), issued)

\* The body of the try block, given the plan and the outcomes o1, o2 of the
\* first and of the state-level find_one (o2 is read only if that call is made).
\* issued: the filters handed to the store, in order.
ScpBody(plan, o1, o2) ==
    IF ~plan.is_price_query \/ ~IsSome(plan.matched_commodity)
    THEN ScpOutcome(FALSE, None, <<>>)
    ELSE IF o1.exc THEN ScpOutcome(TRUE, None, <<Get(plan.query_dict)>>)
    ELSE IF IsSome(o1.val)
    THEN ScpAnswer(FormatResult(Get(o1.val)), <<Get(plan.query_dict)>>)
    ELSE IF ~IsSome(plan.state_query)
    THEN ScpOutcome(FALSE, None, <<Get(plan.query_dict)>>)
    ELSE IF o2.exc
    THEN ScpOutcome(TRUE, None, <<Get(plan.query_dict), Get(plan.state_query)>>)
    ELSE IF IsSome(o2.val)
    THEN ScpAnswer(FormatStateResult(Get(o2.val)),
                   <<Get(plan.query_dict), Get(plan.state_query)>>)
    ELSE ScpOutcome(FALSE, None, <<Get(plan.query_dict), Get(plan.state_query)>>)

\* no except clause: the exception leaves search_commodity_prices
ScpExceptMissing(body) == body

\* the queries of a failed lookup are issued once more before it gives up
ScpExceptRetries(body) ==
    IF body.exc THEN ScpOutcome(FALSE, None, body.issued \o body.issued) ELSE body

\* except Exception: log and return None
ScpExcept(body) ==
    IF body.exc THEN ScpOutcome(FALSE, None, body.issued) ELSE body

\* search_commodity_prices as its caller sees it
SearchCommodityPricesResult(plan, o1, o2) == ScpExcept(ScpBody(plan, o1, o2))

(***************************************************************************)
(* web_search                                                              *)
(***************************************************************************)
UnitMarkers ==
    << Chars("rs"), Chars("inr"), Chars("rupees"), Chars("per kg"), Chars("per quintal") >>

\* the query is dispatched as it is, whatever the intent
SearchQueryUnframed(query, price_framing) == query

\* search_query
SearchQuery(query, price_framing) ==
    IF price_framing THEN Chars("current price of ") \o query \o Chars(" today") ELSE query

\* result.get("snippet", "")
SnippetOf(result) == IF "snippet" \in DOMAIN result THEN result.snippet ELSE <<>>

\* the for loop from result i on: the first snippet with a unit marker, or None
RECURSIVE FirstMarked(_, _)
FirstMarked(results, i) ==
    IF i > Len(results) THEN None
    ELSE IF AnyKeywordIn(UnitMarkers, Lower(SnippetOf(results[i])))
    THEN Some(SnippetOf(results[i]))
    ELSE FirstMarked(results, i + 1)

\* the first result's snippet, whatever the loop found
PickFirstSnippet(results, marked) ==
    IF "snippet" \in DOMAIN results[1] THEN Returned(Some(results[1].snippet))
    ELSE Raised

\* after the loop, with what the loop found
PickSnippet(results, marked) ==
    IF IsSome(marked) THEN Returned(marked)
    ELSE IF "snippet" \in DOMAIN results[1] THEN Returned(Some(results[1].snippet))
    ELSE Raised

\* The body of the try block, given the outcome of the provider call: the
\* organic results (a sequence of dicts), or a fault.
WebSearchBody(outcome) ==
    IF outcome.exc THEN Raised
    ELSE IF outcome.val = <<>> THEN Returned(None)
    ELSE PickSnippet(outcome.val, FirstMarked(outcome.val, 1))

\* except Exception: log and return None
ReturnNoneOnError(body) == IF body.exc THEN Returned(None) ELSE body

\* web_search as its caller sees it
WebSearchResult(outcome) == ReturnNoneOnError(WebSearchBody(outcome))

(***************************************************************************)
(* get_llama_response                                                      *)
(***************************************************************************)
ResponseMarker == Chars("Response:")

\* s.split(sep)[-1]: the part after the last occurrence of sep
SplitLast(s, sep) ==
    LET at == {i \in 0..(Len(s) - Len(sep)) : SubSeq(s, i + 1, i + Len(sep)) = sep}
    IN  IF at = {} THEN s
        ELSE SubSeq(s, (CHOOSE i \in at : \A k \in at : k <= i) + Len(sep) + 1, Len(s))

\* The body of the try block, given the outcome of the completion call: the
\* concatenated fragments, or a fault (HTTP error, bad JSON line).
LlamaBody(outcome) ==
    IF outcome.exc THEN Raised
    ELSE Returned(Some(Strip(SplitLast(outcome.val, ResponseMarker))))

\* except Exception: log and return None
LlamaExcept(body) == IF body.exc THEN Returned(None) ELSE body

\* get_llama_response as its caller sees it
LlamaResult(outcome) == LlamaExcept(LlamaBody(outcome))

\* "sorry" is looked for in the response as it is
LlamaAcceptedCaseSensitive(response) ==
    /\ IsSome(response)
    /\ Get(response) # <<>>
    /\ ~Contains(Chars("sorry"), Get(response))

\* llama_response and "sorry" not in llama_response.lower()
LlamaAccepted(response) ==
    /\ IsSome(response)
    /\ Get(response) # <<>>
    /\ ~Contains(Chars("sorry"), Lower(Get(response)))

(***************************************************************************)
(* Translation                                                             *)
(***************************************************************************)

\* no except clause: the provider's fault leaves translate_response
TranslateResponseNoExcept(text, target_lang, outcome) ==
    IF target_lang = "en" THEN Returned(text)
    ELSE IF outcome.exc THEN Raised
    ELSE Returned(outcome.val)

\* translate_response(text, target_lang), given the outcome of the provider
\* call (read only when target_lang is not 'en')
TranslateResponseResult(text, target_lang, outcome) ==
    IF target_lang = "en" THEN Returned(text)
    ELSE IF outcome.exc THEN Returned(text)
    ELSE Returned(outcome.val)

\* no except clause: the translation fault leaves process_query
TranslationFailedRaises(text) ==
    [exc |-> TRUE, query_to_process |-> text, translated_query |-> None,
     keyword |-> FALSE]

\* except Exception: log, and the working query is the original text again
TranslationFailed(text) ==
    [exc |-> FALSE, query_to_process |-> text, translated_query |-> None,
     keyword |-> FALSE]

\* The try block of process_query that translates the query, given the outcome
\* of the provider call: the working query, translated_query and whether an
\* English keyword was found in the translation.
TranslateQueryResult(text, outcome) ==
    IF outcome.exc
    THEN TranslationFailed(text)
    ELSE [exc |-> FALSE, query_to_process |-> outcome.val,
          translated_query |-> Some(outcome.val),
          keyword |-> AnyKeywordIn(agriculture_keywords, Lower(outcome.val))]

\* one detector for every language: either list, whatever the declared language
RelatedOriginalAnyList(text, lang) ==
    \/ AnyKeywordIn(agriculture_keywords, Lower(text))
    \/ AnyKeywordIn(hindi_agriculture_keywords, text)

\* is_agriculture_related as decided on the original text
RelatedOriginal(text, lang) ==
    CASE lang = "en" -> AnyKeywordIn(agriculture_keywords, Lower(text))
      [] lang = "hi" -> AnyKeywordIn(hindi_agriculture_keywords, text)
      [] OTHER -> FALSE

(***************************************************************************)
(* Fixed messages of process_query                                         *)
(***************************************************************************)
MsgEmpty == Chars("Please enter a valid query.")
MsgRefusal ==
    Chars("Sorry, I can only answer questions about agriculture and farming related questions.")
MsgNoAnswer ==
    Chars("Sorry, I couldn't find an answer. Please try rephrasing your query or check local agricultural sources.")
WebPrefix == Chars("From the web: ")
MsgNoPrice(query) ==
    Chars("Sorry, I couldn't find recent price data for ") \o query
    \o Chars(". Try checking local markets or government sources.")

(***************************************************************************)
(* The inputs and the collaborators' answers                               *)
(***************************************************************************)
MaxDocs == 2
MaxResults == 2

\* 'mr' stands for every declared language other than 'en' and 'hi'
\* (mr, ta, te, bn, gu, kn, ml, pa): process_query treats them alike
Languages == {"en", "hi", "mr"}

QBhindiBalasore == Chars("price of bhindi in balasore")
QMango == Chars("price of mango")
QPests == Chars("how do I protect my crop from pests")
QMovie == Chars("what movie should I watch")
QTomato == Chars("Price of TOMATO")
QHindol == Chars("Bhindi COST in hindol Odisha")
QMangoRate == Chars("mango rate")
QBlank == Chars("  ")
\* two district triggers in one query
QTwoDistricts == Chars("rice rate balasore rayagada")
\* the state is the only location named
QOdisha == Chars("bhindi rate odisha")
\* blanks around the text
QPadded == Chars("  wheat COST ")
\* "valve" scores exactly 80 against the price keyword "value"
QValve == Chars("tractor valve")
\* "bhindi ki keemat" and "aaj mausam kaisa hai" in Devanagari
QHindiPrice ==
    << "U092D", "U093F", "U0902", "U0921", "U0940", " ", "U0915", "U0940", " ",
       "U0915", "U0940", "U092E", "U0924" >>
QHindiWeather ==
    << "U0906", "U091C", " ", "U092E", "U094C", "U0938", "U092E", " ",
       "U0915", "U0948", "U0938", "U093E", " ", "U0939", "U0948" >>

InputQueries ==
    {QBhindiBalasore, QMango, QPests, QMovie, QTomato, QHindol, QMangoRate, QBlank,
     QHindiPrice, QHindiWeather, QValve, QTwoDistricts, QOdisha, QPadded}

\* texts the translation provider may return for a query
QueryTranslations == {QBhindiBalasore, QPests, QMovie}

WorkingQueries == InputQueries \cup QueryTranslations

\* the queries another session hands to search_commodity_prices
OtherQueries == {QHindol, QTomato}

DocBalasore ==
    [crop |-> Chars("bhindi"), market |-> Chars("Balasore Mkt"),
     district_name |-> Chars("Baleswar"), state_name |-> Chars("Odisha"),
     modal_price |-> Chars("2000"), unit_of_price |-> Chars("Rs/Quintal"),
     arrival_date |-> Chars("2024-05-01T00:00:00")]
DocHindol ==
    [crop |-> Chars("Bhindi(Ladies Finger)"), market |-> Chars("Hindol"),
     district_name |-> Chars("Dhenkanal"), state_name |-> Chars("Odisha"),
     modal_price |-> Chars("1800"), unit_of_price |-> Chars("Rs/Quintal"),
     arrival_date |-> Chars("2024-05-03T00:00:00")]
DocRice ==
    [crop |-> Chars("Chawla"), market |-> Chars("Rayagada"),
     district_name |-> Chars("Rayagada"), state_name |-> Chars("Orissa"),
     modal_price |-> Chars("3100"), unit_of_price |-> Chars("Rs/Quintal"),
     arrival_date |-> Chars("2024-05-02T00:00:00")]
\* a document without unit_of_price
DocPartial ==
    [crop |-> Chars("bhindi"), market |-> Chars("Balasore Mkt"),
     district_name |-> Chars("Balasore"), state_name |-> Chars("Odisha"),
     modal_price |-> Chars("2100"),
     arrival_date |-> Chars("2024-05-04T00:00:00")]

DocPool == {DocBalasore, DocHindol, DocRice, DocPartial}

\* the contents of commodity_prices
Stores == {d \in SUBSET DocPool : Cardinality(d) <= MaxDocs}

ResultPool ==
    { [snippet |-> Chars("Mango is RS 80 Per Kg")],
      [snippet |-> Chars("Mango season opens")],
      [snippet |-> <<>>],
      [link |-> Chars("example.org")] }

RECURSIVE SeqsUpTo(_, _)
SeqsUpTo(S, n) ==
    IF n = 0 THEN {<<>>}
    ELSE LET shorter == SeqsUpTo(S, n - 1)
         IN  shorter \cup {Append(q, e) : q \in {t \in shorter : Len(t) = n - 1}, e \in S}

\* what the search provider may answer: up to MaxResults organic results, or a fault
SearchOutcomes == {Raised} \cup {Returned(r) : r \in SeqsUpTo(ResultPool, MaxResults)}

\* what the completion provider may answer: the fragments joined, or a fault
LlamaOutcomes ==
    { Raised,
      Returned(Chars("Response: Use neem oil. ")),
      Returned(Chars("I am SORRY, I do not know")),
      Returned(<<>>) }

\* the translation provider's rendering of text in language dest
Rendered(text, dest) == <<"[">> \o Chars(dest) \o <<"]">> \o text

TranslateOutOutcomes(text, dest) == {Raised, Returned(Rendered(text, dest))}
TranslateInOutcomes == {Raised} \cup {Returned(t) : t \in QueryTranslations}

\* the function f with every value computed
Table(f) == f @@ <<>>

\* ScpPlan, evaluated once for every scorer, catalog and working query
PlanTable ==
    Table([impl \in FuzzImpls |-> Table([catalog \in Catalogs |->
        Table([q \in WorkingQueries |-> ScpPlan(impl, catalog, q)])])])

\* price intent decided on the words as typed, not lowercased
PriceTableAsTyped ==
    Table([impl \in FuzzImpls |-> Table([q \in WorkingQueries |->
        \E k \in 1..Len(price_keywords) : \E w \in 1..Len(Split(q)) :
            Ratio(impl, price_keywords[k], Split(q)[w]) > PriceThreshold])])

\* IsPriceQuery, evaluated once for every scorer and working query
PriceTable ==
    Table([impl \in FuzzImpls |-> Table([q \in WorkingQueries |-> IsPriceQuery(impl, q)])])

\* what search_commodity_prices may return for a plan and a store content: one
\* result for every pair of outcomes of the find_one calls
ScpResults(plan, collection) ==
    {SearchCommodityPricesResult(plan, o1, o2) :
        o1 \in StoreOutcomes(collection, plan.query_dict),
        o2 \in StoreOutcomes(collection, plan.state_query)}

\* ScpResults, evaluated once for every scorer, catalog, working query and store
ScpTable ==
    Table([impl \in FuzzImpls |-> Table([catalog \in Catalogs |->
        Table([q \in WorkingQueries |->
            Table([d \in Stores |-> ScpResults(PlanTable[impl][catalog][q], d)])])])])

\* the value search_commodity_prices returns for every pair of outcomes of the
\* find_one calls, with whether its try body ran without an exception
ScpCleanResults(plan, collection) ==
    {[val |-> SearchCommodityPricesResult(plan, o1, o2).val,
      clean |-> ~ScpBody(plan, o1, o2).exc] :
        o1 \in StoreOutcomes(collection, plan.query_dict),
        o2 \in StoreOutcomes(collection, plan.state_query)}

\* ScpCleanResults, evaluated once for every scorer, catalog, working query and store
ScpCleanTable ==
    Table([impl \in FuzzImpls |-> Table([catalog \in Catalogs |->
        Table([q \in WorkingQueries |->
            Table([d \in Stores |->
                ScpCleanResults(PlanTable[impl][catalog][q], d)])])])])

\* the translation step, evaluated once for every query and provider outcome
TranslateQueryTable ==
    Table([q \in InputQueries |->
        Table([o \in TranslateInOutcomes |-> TranslateQueryResult(q, o)])])

\* web_search, evaluated once for every provider outcome
WebSearchTable == Table([o \in SearchOutcomes |-> WebSearchResult(o)])

\* get_llama_response and the test on its result, once for every provider outcome
LlamaTable ==
    Table([o \in LlamaOutcomes |->
        [result |-> LlamaResult(o), accepted |-> LlamaAccepted(LlamaResult(o).val)]])

(***************************************************************************)
(* State                                                                   *)
(***************************************************************************)
VARIABLES
    commodities,            \* the catalog load_commodities returned
    docs,                   \* the documents of commodity_prices
    fuzzImpl,               \* the scorer behind fuzz.ratio
    pc,                     \* where process_query stands
    user_input, input_lang, \* its arguments
    is_agriculture_related, query_to_process, translated_query, is_price_query,
    matched_commodity,      \* matched_commodity of search_commodity_prices
    commodity_answer, llama_response, web_result,
    source,                 \* which return statement produced the message
    message,                \* the text handed to translate_response
    returned,               \* the message process_query returned
    calls,                  \* the calls made to the collaborators, in order
    other_session           \* what search_commodity_prices last returned in another session

vars ==
    << commodities, docs, fuzzImpl, pc, user_input, input_lang, is_agriculture_related,
       query_to_process, translated_query, is_price_query, matched_commodity,
       commodity_answer, llama_response, web_result, source, message, returned, calls,
       other_session >>

env == << commodities, docs, fuzzImpl >>

Call(svc, arg) == [svc |-> svc, arg |-> arg]

\* the locals of a request before its first statement
Fresh ==
    /\ user_input = <<>>
    /\ input_lang = "en"
    /\ is_agriculture_related = FALSE
    /\ query_to_process = <<>>
    /\ translated_query = None
    /\ is_price_query = FALSE
    /\ matched_commodity = None
    /\ commodity_answer = None
    /\ llama_response = None
    /\ web_result = None
    /\ source = "none"
    /\ message = None
    /\ returned = None
    /\ calls = <<>>

Init ==
    /\ commodities \in Catalogs
    /\ docs \in Stores
    /\ fuzzImpl \in FuzzImpls
    /\ pc = "idle"
    /\ other_session = None
    /\ Fresh

\* find_one removes what it reads
StoreAfterFindConsumes(collection) == {}

\* the collection after search_commodity_prices: find_one only reads it
StoreAfterFind(collection) == collection

\* an answer is never taken as found
AnswerFoundNever(val) == FALSE

\* the truth value Python gives an answer: None and "" are false
AnswerFound(val) == IsSome(val) /\ Get(val) # <<>>

\* the gate lets every query through
GateRejectsNever(related) == FALSE

\* if not is_agriculture_related: return the refusal
GateRejects(related) == ~related

\* the completion provider is asked whatever the intent
StageAfterStructuredLlama(price) == "llama"

\* the stage after a structured lookup without an answer: if is_price_query
\* the price search, else the completion provider
StageAfterStructured(price) == IF price THEN "web_price" ELSE "llama"

\* return translate_response(text, input_lang), input_lang
ReturnVia(text, src) ==
    /\ message' = Some(text)
    /\ source' = src
    /\ pc' = "translate_out"

\* process_query, lines 280-308: the empty-input check and the keyword test on
\* the original text
ProcessQuery(q, lang) ==
    /\ pc = "idle"
    /\ user_input' = q
    /\ input_lang' = lang
    /\ IF Strip(q) = <<>>
       THEN /\ ReturnVia(MsgEmpty, "empty")
            /\ UNCHANGED << is_agriculture_related, query_to_process >>
       ELSE /\ is_agriculture_related' = RelatedOriginal(q, lang)
            /\ query_to_process' = q
            /\ pc' = IF lang # "en" THEN "translate_in" ELSE "gate"
            /\ UNCHANGED << message, source >>
    /\ UNCHANGED << env, other_session, translated_query, is_price_query, matched_commodity,
                    commodity_answer, llama_response, web_result, returned, calls >>

\* lines 309-320: the query is translated to English
TranslateQuery ==
    /\ pc = "translate_in"
    /\ \E o \in TranslateInOutcomes :
          \E r \in {TranslateQueryTable[user_input][o]} :
              /\ query_to_process' = r.query_to_process
              /\ translated_query' = r.translated_query
              /\ is_agriculture_related' = (is_agriculture_related \/ r.keyword)
              /\ pc' = IF r.exc THEN "raised" ELSE "gate"
    /\ calls' = Append(calls, Call("translate", user_input))
    /\ UNCHANGED << env, other_session, user_input, input_lang, is_price_query, matched_commodity,
                    commodity_answer, llama_response, web_result, source, message,
                    returned >>

\* lines 322-327: the relevance gate, then price-intent detection
RelevanceGate ==
    /\ pc = "gate"
    /\ IF GateRejects(is_agriculture_related)
       THEN /\ ReturnVia(MsgRefusal, "refusal")
            /\ UNCHANGED is_price_query
       ELSE /\ is_price_query' = PriceTable[fuzzImpl][query_to_process]
            /\ pc' = "structured"
            /\ UNCHANGED << message, source >>
    /\ UNCHANGED << env, other_session, user_input, input_lang, is_agriculture_related,
                    query_to_process, translated_query, matched_commodity,
                    commodity_answer, llama_response, web_result, returned, calls >>

StoreCalls(issued) == Tuple([i \in 1..Len(issued) |-> Call("store", issued[i])], Len(issued))

\* lines 329-331: search_commodity_prices(query_to_process)
StructuredLookup ==
    /\ pc = "structured"
    /\ \E r \in ScpTable[fuzzImpl][commodities][query_to_process][docs] :
                  /\ matched_commodity' =
                        PlanTable[fuzzImpl][commodities][query_to_process].matched_commodity
                  /\ commodity_answer' = r.val
                  /\ calls' = calls \o StoreCalls(r.issued)
                  /\ IF r.exc
                     THEN pc' = "raised" /\ UNCHANGED << message, source >>
                     ELSE IF AnswerFound(r.val)
                     THEN ReturnVia(Get(r.val), "structured")
                     ELSE /\ pc' = StageAfterStructured(is_price_query)
                          /\ UNCHANGED << message, source >>
    /\ docs' = StoreAfterFind(docs)
    /\ UNCHANGED << commodities, fuzzImpl, other_session, user_input, input_lang,
                    is_agriculture_related, query_to_process, translated_query,
                    is_price_query, llama_response, web_result, returned >>

\* lines 333-337: web_search(query_to_process, is_price_query=True)
WebSearchPrice ==
    /\ pc = "web_price"
    /\ \E o \in SearchOutcomes :
          \E r \in {WebSearchTable[o]} :
              /\ web_result' = r.val
              /\ IF r.exc
                 THEN pc' = "raised" /\ UNCHANGED << message, source >>
                 ELSE IF AnswerFound(r.val)
                 THEN ReturnVia(WebPrefix \o Get(r.val), "web_price")
                 ELSE ReturnVia(MsgNoPrice(query_to_process), "no_price")
    /\ calls' = Append(calls, Call("search", SearchQuery(query_to_process, TRUE)))
    /\ UNCHANGED << env, other_session, user_input, input_lang, is_agriculture_related,
                    query_to_process, translated_query, is_price_query,
                    matched_commodity, commodity_answer, llama_response, returned >>

\* lines 339-341: get_llama_response(query_to_process)
GenerativeFallback ==
    /\ pc = "llama"
    /\ \E o \in LlamaOutcomes :
          \E r \in {LlamaTable[o].result} :
              /\ llama_response' = r.val
              /\ IF r.exc
                 THEN pc' = "raised" /\ UNCHANGED << message, source >>
                 ELSE IF LlamaTable[o].accepted
                 THEN ReturnVia(Get(r.val), "llama")
                 ELSE pc' = "web_general" /\ UNCHANGED << message, source >>
    /\ calls' = Append(calls, Call("llm", query_to_process))
    /\ UNCHANGED << env, other_session, user_input, input_lang, is_agriculture_related,
                    query_to_process, translated_query, is_price_query,
                    matched_commodity, commodity_answer, web_result, returned >>

\* lines 343-348: web_search(query_to_process)
WebSearchGeneral ==
    /\ pc = "web_general"
    /\ \E o \in SearchOutcomes :
          \E r \in {WebSearchTable[o]} :
              /\ web_result' = r.val
              /\ IF r.exc
                 THEN pc' = "raised" /\ UNCHANGED << message, source >>
                 ELSE IF AnswerFound(r.val)
                 THEN ReturnVia(WebPrefix \o Get(r.val), "web")
                 ELSE ReturnVia(MsgNoAnswer, "no_answer")
    /\ calls' = Append(calls, Call("search", SearchQuery(query_to_process, FALSE)))
    /\ UNCHANGED << env, other_session, user_input, input_lang, is_agriculture_related,
                    query_to_process, translated_query, is_price_query,
                    matched_commodity, commodity_answer, llama_response, returned >>

\* translate_response(message, input_lang) at the return statement reached
TranslateResponse ==
    /\ pc = "translate_out"
    /\ \E o \in TranslateOutOutcomes(Get(message), input_lang) :
          \E r \in {TranslateResponseResult(Get(message), input_lang, o)} :
              /\ returned' = IF r.exc THEN None ELSE Some(r.val)
              /\ pc' = IF r.exc THEN "raised" ELSE "done"
    /\ calls' = IF input_lang = "en" THEN calls
                ELSE Append(calls, Call("translate", Get(message)))
    /\ UNCHANGED << env, other_session, user_input, input_lang, is_agriculture_related,
                    query_to_process, translated_query, is_price_query,
                    matched_commodity, commodity_answer, llama_response, web_result,
                    source, message >>

\* main: the response is shown and the next request starts from fresh locals
NextRequest ==
    /\ pc = "done"
    /\ pc' = "idle"
    /\ user_input' = <<>>
    /\ input_lang' = "en"
    /\ is_agriculture_related' = FALSE
    /\ query_to_process' = <<>>
    /\ translated_query' = None
    /\ is_price_query' = FALSE
    /\ matched_commodity' = None
    /\ commodity_answer' = None
    /\ llama_response' = None
    /\ web_result' = None
    /\ source' = "none"
    /\ message' = None
    /\ returned' = None
    /\ calls' = <<>>
    /\ UNCHANGED << env, other_session >>

Next ==
    \/ \E q \in InputQueries, lang \in Languages : ProcessQuery(q, lang)
    \/ TranslateQuery
    \/ RelevanceGate
    \/ StructuredLookup
    \/ WebSearchPrice
    \/ GenerativeFallback
    \/ WebSearchGeneral
    \/ TranslateResponse
    \/ NextRequest

Spec == Init /\ [][Next]_vars

\* search_commodity_prices(q) called by the request of another session (each
\* Streamlit session runs main on a thread of its own) between two steps of
\* this one, on the same catalog and the same collection; one such call is
\* followed
OtherSessionLookup(q) ==
    /\ other_session = None
    /\ \E r \in ScpCleanTable[fuzzImpl][commodities][q][docs] :
          other_session' = Some([query |-> q, val |-> r.val, clean |-> r.clean])
    /\ docs' = StoreAfterFind(docs)
    /\ UNCHANGED << commodities, fuzzImpl, pc, user_input, input_lang,
                    is_agriculture_related, query_to_process, translated_query,
                    is_price_query, matched_commodity, commodity_answer,
                    llama_response, web_result, source, message, returned, calls >>

SessionsNext ==
    \/ Next
    \/ \E q \in OtherQueries : OtherSessionLookup(q)

\* the requests of two sessions interleaved
SessionsSpec == Init /\ [][SessionsNext]_vars

\* process_query runs on one thread, statement after statement: a step that
\* can be taken is taken
FairSpec == Spec /\ WF_vars(Next)

(***************************************************************************)
(* Properties of process_query                                             *)
(***************************************************************************)

\* the positions in calls of the calls made to collaborator svc
CallsTo(svc) == {i \in 1..Len(calls) : calls[i].svc = svc}

\* a value an `if value:` test takes as an answer
Affirmative(v) == v # None /\ v # Some(<<>>)

\* process_query reached one of its return statements
ReachedReturn == pc \in {"translate_out", "done"}

\* the request passed the relevance gate
PastGate ==
    \/ pc \in {"structured", "web_price", "llama", "web_general"}
    \/ ReachedReturn /\ source \notin {"empty", "refusal"}

\* search_commodity_prices has returned to process_query
PastStructured ==
    \/ pc \in {"web_price", "llama", "web_general"}
    \/ ReachedReturn /\ source \notin {"empty", "refusal"}

\* C1: for a price-intent query whose structured lookup returned nothing, no
\* call to the completion provider is ever made and, by the time process_query
\* returns, the search provider has been called; for a non-price query past the
\* relevance gate, every call to the search provider comes after a call to the
\* completion provider, which has been called by the time process_query returns.
C1_FallbackOrder ==
    /\ (PastStructured /\ is_price_query /\ ~Affirmative(commodity_answer))
          => /\ CallsTo("llm") = {}
             /\ ReachedReturn => CallsTo("search") # {}
    /\ (PastGate /\ ~is_price_query)
          => /\ \A i \in CallsTo("search") : \E j \in CallsTo("llm") : j < i
             /\ ReachedReturn => CallsTo("llm") # {}

\* a price-intent request returned after the store was queried and gave nothing
C1_Witness ==
    /\ pc = "done"
    /\ is_price_query
    /\ commodity_answer = None
    /\ CallsTo("store") # {}
    /\ CallsTo("search") # {}
    /\ CallsTo("llm") = {}

\* C2: once the structured lookup, the completion provider (accepted: not empty,
\* no "sorry") or the web search gave an affirmative answer, process_query is at
\* a return statement with that answer as its message (the web answer behind its
\* prefix) and no answer source was called after the one that answered; an
\* accepted completion is the message unchanged and no search call was made.
C2_NoBacktracking ==
    /\ Affirmative(commodity_answer)
          => /\ ReachedReturn
             /\ message = commodity_answer
             /\ CallsTo("llm") = {} /\ CallsTo("search") = {}
    /\ (Affirmative(llama_response)
          /\ ~Contains(Chars("sorry"), Lower(Get(llama_response))))
          => /\ ReachedReturn
             /\ message = llama_response
             /\ CallsTo("search") = {}
    /\ Affirmative(web_result)
          => /\ ReachedReturn
             /\ message = Some(WebPrefix \o Get(web_result))
             /\ Cardinality(CallsTo("search")) = 1
             /\ \A i \in CallsTo("store") \cup CallsTo("llm") :
                   \A j \in CallsTo("search") : i < j
    /\ (pc = "done" /\ input_lang = "en") => returned = message

\* scenario 4: the completion provider's answer to the pests query was returned
C2_Witness ==
    /\ pc = "done"
    /\ user_input = QPests /\ input_lang = "en"
    /\ source = "llama"
    /\ returned = llama_response
    /\ CallsTo("llm") # {}
    /\ CallsTo("search") = {}

\* C3: whichever collaborators raise, process_query never raises, every request
\* that started reaches its return, and what it returns is one non-empty
\* message: the message of the return statement reached, or its translation.
C3_NeverRaises ==
    /\ [](pc # "raised")
    /\ [](pc = "done" =>
            /\ Affirmative(message) /\ Affirmative(returned)
            /\ returned \in {message, Some(Rendered(Get(message), input_lang))})
    /\ (pc # "idle") ~> (pc = "done")

\* a request in Hindi returned the fixed no-answer message untranslated after
\* the completion provider and the translation of the response both raised
C3_Witness ==
    /\ pc = "done"
    /\ input_lang = "hi"
    /\ CallsTo("llm") # {} /\ llama_response = None
    /\ CallsTo("search") # {} /\ web_result = None
    /\ returned = Some(MsgNoAnswer)

\* the relevance gate has decided on the request
GateDecided == PastGate \/ (ReachedReturn /\ source = "refusal")

\* text holds a keyword of one of the two lists (the English list is compared
\* with the lowered text, as the code compares it)
HoldsKeyword(text) ==
    \/ AnyKeywordIn(agriculture_keywords, Lower(text))
    \/ AnyKeywordIn(hindi_agriculture_keywords, text)

\* C4 as stated: in every language a non-blank query passes the gate iff the
\* original text or its English translation holds a keyword of either list, and
\* the refusal is the outcome otherwise.
C4_AnyKeywordAnyLanguage ==
    GateDecided =>
        /\ PastGate <=> \/ HoldsKeyword(user_input)
                        \/ IsSome(translated_query) /\ HoldsKeyword(Get(translated_query))
        /\ ~PastGate => message = Some(MsgRefusal)

\* C4, amended: a non-blank query passes the gate iff (a) the declared language
\* is 'en' and the lowered text holds an English keyword, or (b) it is 'hi' and
\* the text holds a Hindi keyword, or (c) it is not 'en', the translation
\* succeeded and the lowered translation holds an English keyword; otherwise the
\* refusal is the outcome.
C4_PerLanguageGate ==
    GateDecided =>
        /\ PastGate <=>
              \/ input_lang = "en" /\ AnyKeywordIn(agriculture_keywords, Lower(user_input))
              \/ input_lang = "hi" /\ AnyKeywordIn(hindi_agriculture_keywords, user_input)
              \/ /\ input_lang # "en"
                 /\ IsSome(translated_query)
                 /\ AnyKeywordIn(agriculture_keywords, Lower(Get(translated_query)))
        /\ ~PastGate => message = Some(MsgRefusal)

\* "price of mango" declared as another language, its translation failed: the
\* text holds the keyword "price" and the request was refused
C4_Witness ==
    /\ pc = "done"
    /\ user_input = QMango /\ input_lang = "mr"
    /\ translated_query = None
    /\ source = "refusal"

\* the gate's test failed for the request
Rejected ==
    /\ pc \notin {"idle", "translate_in", "gate"}
    /\ source # "empty"
    /\ ~is_agriculture_related

\* C5: a request the gate rejected is at a return statement with the fixed
\* refusal as its message, and no call was made to the store, the search provider
\* or the completion provider; in English no call at all was made and the
\* refusal is returned as it is.
C5_RefusalTerminal ==
    Rejected =>
        /\ ReachedReturn
        /\ message = Some(MsgRefusal)
        /\ CallsTo("store") = {} /\ CallsTo("search") = {} /\ CallsTo("llm") = {}
        /\ input_lang = "en" => calls = <<>>
        /\ (input_lang = "en" /\ pc = "done") => returned = Some(MsgRefusal)

\* scenario 5: the movie query in English was refused without any call
C5_Witness ==
    /\ pc = "done"
    /\ user_input = QMovie /\ input_lang = "en"
    /\ returned = Some(MsgRefusal)
    /\ calls = <<>>

\* catalog entry i appears verbatim in the working query, whatever the case
Verbatim(i) == Contains(commodities[i], Lower(query_to_process))

\* C6: for every price-intent query, every catalog entry that appears verbatim
\* in the query (in any letter case) is the commodity search_commodity_prices
\* matched, after the synonym map.
C6_VerbatimCommodity ==
    (PastStructured /\ is_price_query) =>
        \A i \in 1..Len(commodities) :
            Verbatim(i) => matched_commodity = Some(MapCommodity(commodities[i]))

\* the catalog has no entry "mango"
MangoAbsent == \A i \in 1..Len(commodities) : commodities[i] # Chars("mango")

\* C7: for "price of mango" in English with a catalog without mango, price
\* intent is true, no commodity is matched and no query is issued to the store;
\* and whenever price intent is true and no commodity matches,
\* search_commodity_prices returns None without a query to the store.
C7_MangoSkipsStore ==
    /\ (PastStructured /\ user_input = QMango /\ input_lang = "en" /\ MangoAbsent)
          => /\ is_price_query
             /\ matched_commodity = None
             /\ CallsTo("store") = {}
    /\ (PastStructured /\ is_price_query /\ matched_commodity = None)
          => /\ commodity_answer = None
             /\ CallsTo("store") = {}

\* "price of mango" in English went through the structured lookup without an
\* answer
MangoUnanswered ==
    /\ PastStructured
    /\ user_input = QMango /\ input_lang = "en"
    /\ ~Affirmative(commodity_answer)

\* C8 as stated: for "price of mango" in English with no structured answer, the
\* string dispatched to the search provider is exactly "current price of mango
\* today", and a returned snippet is the message behind "From the web: ".
C8_DispatchedAsStated ==
    MangoUnanswered =>
        /\ \A i \in CallsTo("search") : calls[i].arg = Chars("current price of mango today")
        /\ (ReachedReturn /\ Affirmative(web_result))
              => message = Some(WebPrefix \o Get(web_result))

\* C8, amended: the string dispatched is the whole working query between
\* "current price of " and " today", for "price of mango" the string "current
\* price of price of mango today"; the search provider is called once and the
\* completion provider never; a non-empty snippet is the message behind "From
\* the web: " and is returned as it is, no snippet or an empty one gives the
\* no-price message.
C8_WholeQueryEmbedded ==
    /\ (PastStructured /\ is_price_query /\ ~Affirmative(commodity_answer))
          => \A i \in CallsTo("search") :
                calls[i].arg = Chars("current price of ") \o query_to_process \o Chars(" today")
    /\ MangoUnanswered =>
          /\ \A i \in CallsTo("search") :
                calls[i].arg = Chars("current price of price of mango today")
          /\ CallsTo("llm") = {}
          /\ ReachedReturn =>
                /\ Cardinality(CallsTo("search")) = 1
                /\ message = IF Affirmative(web_result)
                             THEN Some(WebPrefix \o Get(web_result))
                             ELSE Some(MsgNoPrice(QMango))
          /\ pc = "done" => returned = message

\* scenario 3: the snippet with "Per Kg" came back for "price of mango" and was
\* returned behind the prefix
C8_Witness ==
    /\ pc = "done"
    /\ user_input = QMango /\ input_lang = "en"
    /\ \E i \in CallsTo("search") :
          calls[i].arg = Chars("current price of price of mango today")
    /\ returned = Some(Chars("From the web: Mango is RS 80 Per Kg"))

\* the filter search_commodity_prices builds for "price of bhindi in balasore"
BhindiBalasoreFilter ==
    [crop |-> Chars("bhindi"), district_name |-> Chars("Balasore|Baleswar|Baleshwar")]

BhindiStateFilter == [crop |-> Chars("bhindi"), state_name |-> Chars("Odisha|Orissa")]

\* the store holds no bhindi record of the district but one of the state
StateRecordOnly ==
    /\ \A d \in docs : ~DocMatches(d, BhindiBalasoreFilter)
    /\ \E d \in docs : DocMatches(d, BhindiStateFilter)

\* the request is "price of bhindi in balasore" in English
BhindiBalasoreAsked == user_input = QBhindiBalasore /\ input_lang = "en"

\* C9 as stated: for "price of bhindi in balasore", with no bhindi record of the
\* district in the store but one of the state Odisha, the structured lookup can
\* give the state-level sentence built from a state record (it does, unless the
\* store raises).
C9_StateSentenceAsStated ==
    (BhindiBalasoreAsked /\ StateRecordOnly /\ pc = "structured") =>
        \E r \in ScpTable[fuzzImpl][commodities][query_to_process][docs] :
            \E d \in docs : /\ DocMatches(d, BhindiStateFilter)
                            /\ r.val = Some(FormatStateResult(d).val)

\* C9, amended: "price of bhindi in balasore" names no state, so the store is
\* asked once, with the crop and the district filter, and never at state level;
\* with no bhindi record of the district the lookup gives nothing, whatever
\* state records exist, and the price web search answers.  A state-level query
\* is issued only after a first query that carried the state filter, and holds
\* the crop and the state filter alone; for "Bhindi COST in hindol Odisha" with
\* only the Balasore record in the store the answer of the structured lookup is
\* the state-level sentence of that record.
C9_StateRetryNeedsStateFilter ==
    /\ (PastStructured /\ BhindiBalasoreAsked) =>
          /\ Cardinality(CallsTo("store")) = 1
          /\ \A i \in CallsTo("store") : calls[i].arg = BhindiBalasoreFilter
    /\ (PastStructured /\ BhindiBalasoreAsked /\ StateRecordOnly) =>
          /\ commodity_answer = None
          /\ CallsTo("llm") = {}
          /\ ReachedReturn => source \in {"web_price", "no_price"}
    /\ \A i \in CallsTo("store") : \A j \in CallsTo("store") :
          i < j => /\ "state_name" \in DOMAIN calls[i].arg
                   /\ DOMAIN calls[j].arg = {"crop", "state_name"}
                   /\ calls[j].arg.crop = calls[i].arg.crop
                   /\ calls[j].arg.state_name = calls[i].arg.state_name
    /\ (ReachedReturn /\ user_input = QHindol /\ input_lang = "en"
          /\ docs = {DocBalasore} /\ source = "structured")
          => /\ Cardinality(CallsTo("store")) = 2
             /\ message = Some(Chars("The price of bhindi in Balasore Mkt, Odisha is 2000 Rs/Quintal as of 2024-05-01."))

\* scenario 2: only the Hindol record of Odisha is in the store, the store was
\* asked once and the request was answered from the web
C9_Witness ==
    /\ pc = "done"
    /\ BhindiBalasoreAsked
    /\ docs = {DocHindol}
    /\ StateRecordOnly
    /\ commodity_answer = None
    /\ Cardinality(CallsTo("store")) = 1
    /\ source = "web_price"

\* the translation of the query was attempted and failed
TranslateInFailed ==
    /\ input_lang # "en"
    /\ pc \notin {"idle", "translate_in"}
    /\ source # "empty"
    /\ translated_query = None

\* C10: when the declared language is not English and the translation of the
\* query failed, process_query has not raised, the working query is the
\* original text, the gate decides on the original text alone, and past the
\* gate price intent is computed from, and every answer source is called with,
\* the original text.
C10_TranslationFailureContinues ==
    TranslateInFailed =>
        /\ pc # "raised"
        /\ query_to_process = user_input
        /\ calls # <<>> /\ calls[1] = Call("translate", user_input)
        /\ is_agriculture_related = RelatedOriginal(user_input, input_lang)
        /\ pc # "gate" => (PastGate <=> is_agriculture_related)
        /\ PastGate =>
              /\ is_price_query = IsPriceQuery(fuzzImpl, user_input)
              /\ \A i \in CallsTo("llm") : calls[i].arg = user_input
              /\ \A i \in CallsTo("search") :
                    calls[i].arg = SearchQuery(user_input, is_price_query)
        /\ (PastStructured /\ ~Affirmative(commodity_answer) /\ ReachedReturn)
              => CallsTo("search") # {} \/ CallsTo("llm") # {}

\* the Hindi price query, its translation failed: it passed the gate on its
\* Hindi keyword and the web search was asked about the untranslated text
C10_Witness ==
    /\ pc = "done"
    /\ user_input = QHindiPrice /\ input_lang = "hi"
    /\ translated_query = None
    /\ is_price_query
    /\ \E i \in CallsTo("search") : calls[i].arg = SearchQuery(QHindiPrice, TRUE)
    /\ source = "web_price"

\* the calls to the translation provider expected of a request that returned:
\* none in English, else the response, and the query before it unless it was blank
TranslateCallsExpected ==
    IF input_lang = "en" THEN <<>>
    ELSE IF source = "empty" THEN << Call("translate", Get(message)) >>
    ELSE << Call("translate", user_input), Call("translate", Get(message)) >>

\* C11: translate_response never raises and gives back its text unchanged when
\* the target language is 'en' or the provider raises; a request that returned
\* handed exactly one message to translate_response, with the declared
\* language: what it returned is that message or its rendering, and the provider
\* was called for the response once (never in English).
C11_TranslateResponseFailSoft ==
    /\ pc = "translate_out" =>
          /\ IsSome(message)
          /\ \A o \in TranslateOutOutcomes(Get(message), input_lang) :
                /\ ~TranslateResponseResult(Get(message), input_lang, o).exc
                /\ (input_lang = "en" \/ o.exc)
                      => TranslateResponseResult(Get(message), input_lang, o).val
                            = Get(message)
    /\ pc = "done" =>
          /\ IsSome(message) /\ IsSome(returned)
          /\ input_lang = "en" => returned = message
          /\ returned \in {message, Some(Rendered(Get(message), input_lang))}
          /\ [i \in 1..Cardinality(CallsTo("translate")) |->
                calls[Nth(CallsTo("translate"), i)]] = TranslateCallsExpected
    /\ (pc \notin {"translate_out", "done"}) => returned = None
    /\ pc # "raised"

\* a refusal in another language whose translation failed: the English text
\* was returned after one call for the response
C11_Witness ==
    /\ pc = "done"
    /\ input_lang = "mr"
    /\ source = "refusal"
    /\ returned = Some(MsgRefusal)
    /\ calls[Len(calls)] = Call("translate", MsgRefusal)

\* the scores of the whitespace-delimited tokens of the lowered query against
\* the price keywords
PriceScores(impl, query) ==
    {Ratio(impl, price_keywords[k], Split(Lower(query))[w]) :
        k \in 1..Len(price_keywords), w \in 1..Len(Split(Lower(query)))}

\* PriceScores, evaluated once for every scorer and working query
PriceScoreTable ==
    Table([impl \in FuzzImpls |-> Table([q \in WorkingQueries |-> PriceScores(impl, q)])])

\* C12: past the gate, price intent is true exactly when some token of the
\* lowered working query scores strictly above 80 against some price keyword,
\* and false when every score is at most 80; search_commodity_prices decides
\* the same on the same query.
C12_PriceIntentThreshold ==
    PastGate =>
        /\ is_price_query <=> \E sc \in PriceScoreTable[fuzzImpl][query_to_process] : sc > 80
        /\ (\A sc \in PriceScoreTable[fuzzImpl][query_to_process] : sc <= 80)
              => ~is_price_query
        /\ PlanTable[fuzzImpl][commodities][query_to_process].is_price_query = is_price_query

\* "tractor valve" passed the gate: its best score is exactly 80 and price
\* intent is false
C12_Witness ==
    /\ PastGate
    /\ user_input = QValve /\ query_to_process = QValve
    /\ 80 \in PriceScoreTable[fuzzImpl][QValve]
    /\ \A sc \in PriceScoreTable[fuzzImpl][QValve] : sc <= 80
    /\ ~is_price_query
    /\ CallsTo("llm") # {}

\* every name the synonym map may be asked about: its keys, its values and the
\* entries of the catalog in use
ResolvableNames ==
    {MappingKeys[k] : k \in 1..Len(MappingKeys)}
        \cup {MappingValues[k] : k \in 1..Len(MappingValues)}
        \cup {commodities[i] : i \in 1..Len(commodities)}

\* C13: resolving twice is resolving once, for every key, value and catalog
\* entry; no value of the synonym map is one of its keys; and the commodity
\* search_commodity_prices matched is left unchanged by another resolution.
C13_ResolveIdempotent ==
    /\ \A x \in ResolvableNames : MapCommodity(MapCommodity(x)) = MapCommodity(x)
    /\ \A k \in 1..Len(MappingValues) : \A j \in 1..Len(MappingKeys) :
          MappingValues[k] # MappingKeys[j]
    /\ IsSome(matched_commodity)
          => MapCommodity(Get(matched_commodity)) = Get(matched_commodity)

\* the entry "rice" was matched and resolved to "chawla", which resolves to
\* itself
C13_Witness ==
    /\ PastStructured
    /\ PlanTable[fuzzImpl][commodities][query_to_process].first_match = Some(Chars("rice"))
    /\ matched_commodity = Some(Chars("chawla"))
    /\ MapCommodity(Chars("chawla")) = Chars("chawla")

\* the values search_commodity_prices can return for the working query on the
\* current catalog and store when no exception occurs in it
CleanAnswers ==
    {r.val : r \in {x \in ScpCleanTable[fuzzImpl][commodities][query_to_process][docs] :
                        x.clean}}

\* the other session looked up the working query of this request and no
\* exception occurred in its call
OtherSameQuery ==
    /\ IsSome(other_session)
    /\ Get(other_session).query = query_to_process
    /\ Get(other_session).clean

\* C14: no step of a request, in this session or another, changes the catalog
\* or the contents of the store (the synonym map is a literal); for a given
\* catalog, store and query search_commodity_prices has one value when no
\* exception occurs in it; and with two sessions interleaved, the answer of this
\* request's lookup is the value the other session got for the same query, or
\* None when this one's store call raised.
C14_NoHiddenMutation ==
    /\ [][commodities' = commodities /\ docs' = docs]_vars
    /\ [](pc = "structured" => Cardinality(CleanAnswers) <= 1)
    /\ []((PastStructured /\ OtherSameQuery)
             => commodity_answer \in {Get(other_session).val, None})

\* both sessions asked for "Bhindi COST in hindol Odisha" on a store with
\* records and got the same sentence
C14_Witness ==
    /\ pc = "translate_out"
    /\ user_input = QHindol
    /\ OtherSameQuery
    /\ Affirmative(commodity_answer)
    /\ Get(other_session).val = commodity_answer
    /\ docs # {}

\* the trigger phrases of location extraction, in the order of the code's tests
GazetteerTriggers ==
    << [phrases |-> {"balasore", "baleswar", "baleshwar"}, field |-> "district_name",
        pattern |-> Chars("Balasore|Baleswar|Baleshwar")],
       [phrases |-> {"odisha", "orissa"}, field |-> "state_name",
        pattern |-> Chars("Odisha|Orissa")],
       [phrases |-> {"hindol"}, field |-> "market", pattern |-> Chars("Hindol")],
       [phrases |-> {"rayagada"}, field |-> "district_name",
        pattern |-> Chars("Rayagada")] >>

\* the triggers with a phrase in the working query
TriggersHit ==
    {t \in 1..Len(GazetteerTriggers) :
        \E p \in GazetteerTriggers[t].phrases :
            Contains(Chars(p), Lower(query_to_process))}

\* the first query this request sent to the store
FirstStoreQuery == calls[SetMin(CallsTo("store"))].arg

\* C15 as stated: the filter of the store query carries the constraint of every
\* trigger found in the query.
C15_EveryTriggerConstrains ==
    CallsTo("store") # {} =>
        \A t \in TriggersHit :
            /\ GazetteerTriggers[t].field \in DOMAIN FirstStoreQuery
            /\ FirstStoreQuery[GazetteerTriggers[t].field] = GazetteerTriggers[t].pattern

\* C15, amended: the filter has one entry for the crop and one for every field
\* with a trigger in the query, holding the pattern of the last such trigger in
\* the order of the tests (so "rayagada" replaces the Balasore pattern); the
\* entries are applied together: a sentence answered from the first query is
\* that of a stored document matching every entry.
C15_OneEntryPerField ==
    CallsTo("store") # {} =>
        /\ DOMAIN FirstStoreQuery
              = {"crop"} \cup {GazetteerTriggers[t].field : t \in TriggersHit}
        /\ \A t \in TriggersHit :
              (\A u \in TriggersHit :
                    GazetteerTriggers[u].field = GazetteerTriggers[t].field => u <= t)
                 => FirstStoreQuery[GazetteerTriggers[t].field] = GazetteerTriggers[t].pattern
        /\ (Affirmative(commodity_answer) /\ Cardinality(CallsTo("store")) = 1)
              => \E d \in docs :
                    /\ FormatResult(d) = Returned(Get(commodity_answer))
                    /\ \A f \in DOMAIN FirstStoreQuery :
                          f \in DOMAIN d /\ RegexSearchI(FirstStoreQuery[f], d[f])

\* a query naming Balasore and Rayagada was answered with the Rayagada record:
\* the district entry of its filter is the Rayagada pattern alone
C15_Witness ==
    /\ user_input = QTwoDistricts /\ input_lang = "en"
    /\ Cardinality(TriggersHit) = 2
    /\ CallsTo("store") # {}
    /\ FirstStoreQuery = [crop |-> Chars("chawla"), district_name |-> Chars("Rayagada")]
    /\ Affirmative(commodity_answer)

\* within one request each collaborator is called a bounded number of times:
\* search and completion once, the store twice, translation once for the query
\* (the first call) and once for the response (the last call)
CallCountsBounded ==
    /\ Cardinality(CallsTo("search")) <= 1
    /\ Cardinality(CallsTo("llm")) <= 1
    /\ Cardinality(CallsTo("store")) <= 2
    /\ \A i \in CallsTo("translate") : i = 1 \/ (i = Len(calls) /\ pc = "done")
    /\ input_lang = "en" => CallsTo("translate") = {}
    /\ pc = "structured" =>
          \A o2 \in StoreOutcomes(docs,
                      PlanTable[fuzzImpl][commodities][query_to_process].state_query) :
              Len(ScpBody(PlanTable[fuzzImpl][commodities][query_to_process],
                          Raised, o2).issued) <= 1

\* C16 as stated: the call counts are bounded and no call of a request is made
\* a second time with the same argument.
C16_NothingRepeated ==
    /\ CallCountsBounded
    /\ \A i \in 1..Len(calls) : \A j \in 1..Len(calls) : i < j => calls[i] # calls[j]

\* C16, amended: the call counts are bounded, a store query that raised is not
\* followed by another, and the only call made twice with the same argument is
\* the store query of a request whose only location filter is the state: its
\* state-level query equals the first one.
C16_OneShotStages ==
    /\ CallCountsBounded
    /\ \A i \in 1..Len(calls) : \A j \in 1..Len(calls) :
          (i < j /\ calls[i] = calls[j])
             => /\ calls[i].svc = "store"
                /\ DOMAIN calls[i].arg = {"crop", "state_name"}
                /\ DOMAIN PlanTable[fuzzImpl][commodities][query_to_process].location_filters
                      = {"state_name"}

\* "bhindi rate odisha" found no record: the store was asked the same query
\* twice before the web search
C16_Witness ==
    /\ pc = "done"
    /\ user_input = QOdisha /\ input_lang = "en"
    /\ Cardinality(CallsTo("store")) = 2
    /\ calls[1] = calls[2]
    /\ Cardinality(CallsTo("search")) = 1

\* the second query this request sent to the store
SecondStoreQuery == calls[SetMax(CallsTo("store"))].arg

\* no stored document matches the filter
NoRecord(filter) == \A d \in docs : ~DocMatches(d, filter)

\* C17: a second store query is issued only when the first one carried a state
\* filter and no stored record matched it, and it holds the crop pattern and
\* the state filter alone; a sentence answered after it is the state-level
\* sentence of a record matching it; when the first query matches nothing and
\* either no state filter was extracted or the state-level query matches
\* nothing either, the result is None, not an exception, and the request goes
\* on to the price web search.
C17_StateBroadening ==
    /\ Cardinality(CallsTo("store")) = 2 =>
          /\ "state_name" \in DOMAIN FirstStoreQuery
          /\ NoRecord(FirstStoreQuery)
          /\ SecondStoreQuery = [crop |-> FirstStoreQuery.crop,
                                 state_name |-> FirstStoreQuery.state_name]
          /\ Affirmative(commodity_answer) =>
                \E d \in docs : /\ DocMatches(d, SecondStoreQuery)
                                /\ FormatStateResult(d) = Returned(Get(commodity_answer))
    /\ (Cardinality(CallsTo("store")) = 1 /\ "state_name" \notin DOMAIN FirstStoreQuery
          /\ NoRecord(FirstStoreQuery))
          => /\ commodity_answer = None
             /\ pc # "raised"
             /\ ReachedReturn => source \in {"web_price", "no_price"}
    /\ (Cardinality(CallsTo("store")) = 2 /\ NoRecord(SecondStoreQuery))
          => /\ commodity_answer = None
             /\ pc # "raised"
             /\ ReachedReturn => source \in {"web_price", "no_price"}

\* "Bhindi COST in hindol Odisha" with only the Balasore record stored: the
\* market filter was dropped in the second query, which found the record
C17_Witness ==
    /\ user_input = QHindol
    /\ docs = {DocBalasore}
    /\ Cardinality(CallsTo("store")) = 2
    /\ "market" \in DOMAIN FirstStoreQuery
    /\ "market" \notin DOMAIN SecondStoreQuery
    /\ commodity_answer = Some(FormatStateResult(DocBalasore).val)

\* the completion provider was called and its answer is absent, empty or holds
\* "sorry" in some letter case
LlamaRejected ==
    /\ CallsTo("llm") # {}
    /\ pc # "llama"
    /\ \/ llama_response = None
       \/ llama_response = Some(<<>>)
       \/ Contains(Chars("sorry"), Lower(Get(llama_response)))

\* C18: a rejected generative answer is never the message of the request; the
\* web search follows it, called with the working query without price framing;
\* the request returns the web snippet behind "From the web: " or, only when
\* the search gave nothing, the fixed no-answer message.
C18_RejectedLlamaNotReturned ==
    LlamaRejected =>
        /\ source # "llama"
        /\ llama_response # None => message # llama_response
        /\ pc = "web_general" \/ ReachedReturn
        /\ ReachedReturn =>
              /\ \E i \in CallsTo("search") :
                    /\ calls[i].arg = query_to_process
                    /\ \A j \in CallsTo("llm") : j < i
              /\ message = IF Affirmative(web_result)
                           THEN Some(WebPrefix \o Get(web_result))
                           ELSE Some(MsgNoAnswer)
              /\ source = IF Affirmative(web_result) THEN "web" ELSE "no_answer"

\* the completion provider answered "I am SORRY, ..." to the pests query and the
\* web search gave nothing: the no-answer message was returned
C18_Witness ==
    /\ pc = "done"
    /\ user_input = QPests /\ input_lang = "en"
    /\ llama_response = Some(Chars("I am SORRY, I do not know"))
    /\ \E i \in CallsTo("search") : calls[i].arg = QPests
    /\ returned = Some(MsgNoAnswer)

\* the positions of the results whose snippet holds a currency or unit marker,
\* letter case aside (a result without a snippet holds none)
MarkedResults(results) ==
    {i \in 1..Len(results) :
        /\ "snippet" \in DOMAIN results[i]
        /\ \E mk \in {"rs", "inr", "rupees", "per kg", "per quintal"} :
              Contains(Chars(mk), Lower(results[i].snippet))}

\* what C19 says web_search returns for a list of organic results
ExpectedSnippet(results) ==
    IF results = <<>> THEN None
    ELSE IF MarkedResults(results) # {}
    THEN Some(results[SetMin(MarkedResults(results))].snippet)
    ELSE IF "snippet" \in DOMAIN results[1] THEN Some(results[1].snippet)
    ELSE None

\* the values web_search can return
WebSearchValues == {WebSearchTable[o].val : o \in SearchOutcomes}

\* web_search agrees with ExpectedSnippet on every answer of the provider and
\* raises on none
SelectsExpectedSnippet ==
    \A o \in SearchOutcomes :
        /\ ~WebSearchTable[o].exc
        /\ ~o.exc => WebSearchTable[o].val = ExpectedSnippet(o.val)

\* C19: for every list of organic results the provider may give, web_search does
\* not raise and returns the snippet of the first result, in provider order,
\* whose snippet holds a marker in any letter case; with no such result the
\* first result's snippet (None when that result has no snippet); None for the
\* empty list; and what process_query holds after the call is such a value.
C19_SnippetSelection ==
    /\ pc \in {"web_price", "web_general"} => SelectsExpectedSnippet
    /\ CallsTo("search") # {} => web_result \in WebSearchValues
    /\ CallsTo("search") = {} => web_result = None

\* the snippet "Mango is RS 80 Per Kg" came back from the search: it is what
\* web_search picks from a list whose first result holds no marker
C19_Witness ==
    /\ CallsTo("search") # {}
    /\ web_result = Some(Chars("Mango is RS 80 Per Kg"))
    /\ \E o \in SearchOutcomes :
          /\ ~o.exc /\ Len(o.val) = 2
          /\ 1 \notin MarkedResults(o.val)
          /\ WebSearchTable[o].val = web_result

\* a line of commodity_list.txt that is a comment
IsComment(line) == Strip(line) # <<>> /\ Head(Strip(line)) = "#"

\* a line that lists a name: not blank, not a comment, without the denylist
\* substring
ListsName(line) ==
    /\ Strip(line) # <<>>
    /\ ~IsComment(line)
    /\ ~Contains(Chars("ox"), Lower(line))

\* the catalog C20 describes for a readable file: the listed names, lowercased,
\* each at its first occurrence
DescribedCatalog(lines) ==
    LET listed == SelectSeq(lines, ListsName)
        firsts == {i \in 1..Len(listed) :
                     \A j \in 1..(i - 1) : Lower(Strip(listed[j])) # Lower(Strip(listed[i]))}
    IN  Tuple([n \in 1..Cardinality(firsts) |-> Lower(Strip(listed[Nth(firsts, n)]))],
              Cardinality(firsts))

\* C20: the catalog in use is the default list (source unreadable) or, for a
\* readable source, its names with comment lines and blank lines ignored,
\* lowercased, entries holding "ox" removed and duplicates removed in first-seen
\* order.
C20_LoadAsDescribed ==
    \/ commodities = DefaultCommodities
    \/ \E f \in CommodityFiles : commodities = DescribedCatalog(f)

\* on every working query, for every scorer and catalog, the decision of
\* process_query is the one search_commodity_prices takes
IntentDecisionsAgree ==
    \A impl \in FuzzImpls : \A catalog \in Catalogs : \A q \in WorkingQueries :
        PriceTable[impl][q] = PlanTable[impl][catalog][q].is_price_query

\* C21: price intent as process_query computes it equals price intent as
\* search_commodity_prices computes it, on every working query; a structured
\* answer is held or returned only when process_query decided price intent;
\* and for a query without price intent no query is sent to the store.
C21_IntentDecisionsAgree ==
    /\ IntentDecisionsAgree
    /\ PastGate =>
          is_price_query = PlanTable[fuzzImpl][commodities][query_to_process].is_price_query
    /\ (Affirmative(commodity_answer) \/ source = "structured") => is_price_query
    /\ (PastGate /\ ~is_price_query)
          => /\ CallsTo("store") = {}
             /\ commodity_answer = None
             /\ matched_commodity = None

\* "  wheat COST " with blanks around it: both decisions are price intent and
\* the store was queried for wheat
C21_Witness ==
    /\ PastStructured
    /\ user_input = QPadded /\ input_lang = "en"
    /\ is_price_query
    /\ PlanTable[fuzzImpl][commodities][QPadded].is_price_query
    /\ \E i \in CallsTo("store") : calls[i].arg = [crop |-> Chars("wheat")]

\* position of "rice" in the built-in list
RiceIndex == CHOOSE i \in 1..Len(DefaultCommodities) : DefaultCommodities[i] = Chars("rice")

\* the built-in entries up to and including "rice"
UpToRice == {DefaultCommodities[i] : i \in 1..RiceIndex}

HasPriceWord(q) ==
    \E w \in 1..Len(Split(Lower(q))) : Split(Lower(q))[w] = Chars("price")

\* the working queries that hold the word "price"
PriceWordQueries == {q \in WorkingQueries : HasPriceWord(q)}

\* the names search_commodity_prices goes on with after an entry up to "rice"
MappedUpToRice == {MapCommodity(c) : c \in UpToRice}

\* queries with the word "price" that name entries listed after "rice"
LaterEntryQueries ==
    {Chars("wheat price today"), Chars("price of lemon and corn"),
     Chars("Tomato PRICE"), Chars("chawla price")}

\* with the built-in list the loop of search_commodity_prices stops at an entry
\* up to "rice" for every query holding the word "price"
StopsByRice ==
    \A impl \in FuzzImpls :
        \A q \in PriceWordQueries \cup {x \in LaterEntryQueries : HasPriceWord(x)} :
            /\ IsPriceQuery(impl, q)
            /\ IsSome(FirstMatch(impl, DefaultCommodities, q))
            /\ Get(FirstMatch(impl, DefaultCommodities, q)) \in UpToRice

\* C22: with the built-in default catalog and a query that holds the word
\* "price", the commodity loop stops at "rice" or at an earlier entry; the
\* entry it matched is never one listed after "rice", and the commodity
\* search_commodity_prices goes on with is the synonym-mapped name of an
\* entry up to "rice".
C22_PriceStopsAtRice ==
    /\ StopsByRice
    /\ (PastStructured /\ commodities = DefaultCommodities /\ query_to_process \in PriceWordQueries)
          => /\ is_price_query
             /\ IsSome(PlanTable[fuzzImpl][commodities][query_to_process].first_match)
             /\ Get(PlanTable[fuzzImpl][commodities][query_to_process].first_match) \in UpToRice
             /\ IsSome(matched_commodity) /\ Get(matched_commodity) \in MappedUpToRice
             /\ \A i \in CallsTo("store") : calls[i].arg.crop \in MappedUpToRice

\* "Price of TOMATO" with the built-in list: "tomato" is in the query, the loop
\* stopped at "rice", and the store was asked for its synonym "chawla"
C22_Witness ==
    /\ PastStructured
    /\ commodities = DefaultCommodities
    /\ user_input = QTomato /\ input_lang = "en"
    /\ Contains(Chars("tomato"), Lower(query_to_process))
    /\ PlanTable[fuzzImpl][commodities][query_to_process].first_match = Some(Chars("rice"))
    /\ matched_commodity = Some(Chars("chawla"))
    /\ \E i \in CallsTo("store") : calls[i].arg.crop = Chars("chawla")
====
